---------------------------- MODULE Spec2Model ----------------------------
(***************************************************************************)
(* Model of urban-wombat/util (src/util.go): the flag validator            *)
(* CheckStringFlag (both definitions found in util.go), the piped-input    *)
(* reader GulpFromPipe and its timed wrapper GulpFromPipeWithTimeout.      *)
(*                                                                         *)
(* Strings are sequences: a flag name or argument is a sequence of         *)
(* characters, standard input and the returned text are sequences of       *)
(* bytes (0..255), the reader's accumulator is a sequence of runes.        *)
(* An error value is a record holding the format string and the arguments  *)
(* given to fmt.Errorf; NoErr is Go's nil error.                           *)
(***************************************************************************)
EXTENDS Integers, Sequences, FiniteSets, TLC

VARIABLES
    flagCall,   \* the last CheckStringFlag call: its definition, inputs and results
    stdin,      \* bytes of standard input not yet consumed by the reader
    stdinEnd,   \* what standard input does once its bytes are consumed
    sent,       \* every byte standard input carries (never changes)
    output,     \* GulpFromPipe: var output []rune
    rpc,        \* position of GulpFromPipe and of the goroutine that calls it
    gret,       \* what GulpFromPipe returned
    cpc,        \* position of the caller of GulpFromPipeWithTimeout
    timeout,    \* GulpFromPipeWithTimeout: parameter timeout
    c1,         \* GulpFromPipeWithTimeout: c1 := make(chan string, 1)
    timer,      \* the timer behind time.After(timeout)
    input,      \* GulpFromPipeWithTimeout: named result input (shared with the goroutine)
    err,        \* GulpFromPipeWithTimeout: named result err (shared with the goroutine)
    result,     \* GulpFromPipeWithTimeout: result := <-c1
    ret,        \* what the caller of GulpFromPipeWithTimeout receives
    branch,     \* which case of the select statement was taken
    first,      \* which of the two events (delivery into c1, timer firing) came first
    canRead,    \* the last CanReadFromPipe call: what Stat gave and what was returned
    sf,         \* a StringFlag: its fields val, exists, set, err
    setArgs,    \* the arguments of the Set calls made on sf so far, in order
    setRet      \* what the last Set call returned

flagVars == <<flagCall>>
pipeVars == <<stdin, stdinEnd, sent, output, rpc, gret>>
timedVars == <<cpc, timeout, c1, timer, input, err, result, ret, branch, first>>
statVars == <<canRead>>
sfVars == <<sf, setArgs, setRet>>
vars == <<flagCall, stdin, stdinEnd, sent, output, rpc, gret,
          cpc, timeout, c1, timer, input, err, result, ret, branch, first,
          canRead, sf, setArgs, setRet>>

-----------------------------------------------------------------------------
(* Bounds *)

\* Longest flag argument tried.
MaxArgLen == 3

\* Longest standard input (in bytes) drawn from ByteSet.
MaxStdin == 3

\* Largest size Stat reports for standard input.
MaxStatSize == 2

\* Longest argument given to StringFlag.Set, and the most Set calls made.
MaxSetArgLen == 2
MaxSets == 3

-----------------------------------------------------------------------------
(* Values *)

\* Go's nil error.
NoErr == [format |-> "nil", args |-> <<>>]

\* All sequences over S of length at most n.
SeqUpTo(S, n) == UNION {[1..k -> S] : k \in 0..n}

\* fmt.Errorf(format, args...)
Errorf(format, args) == [format |-> format, args |-> args]

\* strings.HasPrefix(s, "-")
HasDashPrefix(s) == Len(s) >= 1 /\ s[1] = "-"

-----------------------------------------------------------------------------
(* CheckStringFlag *)

FlagChars == {"-", "x"}
FlagNames == {<<>>, <<"r">>, <<"o">>}
FlagArgs == SeqUpTo(FlagChars, MaxArgLen)

\* The error of the "required && !exists" branch.
MissingRequiredFlag(name) == Errorf("missing required flag: -%s", <<name>>)

\* The error of the "exists && !hasValidLookingArg" branch.
InvalidFlagArgument(name, arg) ==
    Errorf("flag -%s needs a valid argument (not: %s)", <<name, arg>>)

\* Faulty variant: the required-flag test is lost.
CheckStringFlag_NoRequiredTest(name, arg, required) ==
    LET exists0 == (arg # <<>>)
        hasValidLookingArg == exists0 /\ ~HasDashPrefix(arg)
    IN  IF exists0 /\ ~hasValidLookingArg
        THEN [exists |-> FALSE, err |-> InvalidFlagArgument(name, arg)]
        ELSE [exists |-> exists0, err |-> NoErr]

\* Faulty variant: the prefix test is inverted.
CheckStringFlag_PrefixInverted(name, arg, required) ==
    LET exists0 == (arg # <<>>)
        hasValidLookingArg == exists0 /\ HasDashPrefix(arg)
    IN  IF required /\ ~exists0
        THEN [exists |-> FALSE, err |-> MissingRequiredFlag(name)]
        ELSE IF exists0 /\ ~hasValidLookingArg
        THEN [exists |-> FALSE, err |-> InvalidFlagArgument(name, arg)]
        ELSE [exists |-> exists0, err |-> NoErr]

\* Faulty variant: an absent flag is an error whether required or not.
CheckStringFlag_AlwaysRequired(name, arg, required) ==
    LET exists0 == (arg # <<>>)
        hasValidLookingArg == exists0 /\ ~HasDashPrefix(arg)
    IN  IF ~exists0
        THEN [exists |-> FALSE, err |-> MissingRequiredFlag(name)]
        ELSE IF exists0 /\ ~hasValidLookingArg
        THEN [exists |-> FALSE, err |-> InvalidFlagArgument(name, arg)]
        ELSE [exists |-> exists0, err |-> NoErr]

\* util.go:152-182, the first definition.
CheckStringFlag(name, arg, required) ==
    LET exists0 == (arg # <<>>)
        hasValidLookingArg == exists0 /\ ~HasDashPrefix(arg)
    IN  IF required /\ ~exists0
        THEN [exists |-> FALSE, err |-> MissingRequiredFlag(name)]
        ELSE IF exists0 /\ ~hasValidLookingArg
        THEN [exists |-> FALSE, err |-> InvalidFlagArgument(name, arg)]
        ELSE [exists |-> exists0, err |-> NoErr]

\* util.go:670-700, the second definition: line 695 calls fmt.Errorf and drops
\* its value, so err is still nil at "return false, err".
CheckStringFlag2(name, arg, required) ==
    LET exists0 == (arg # <<>>)
        hasValidLookingArg == exists0 /\ ~HasDashPrefix(arg)
    IN  IF required /\ ~exists0
        THEN [exists |-> FALSE, err |-> MissingRequiredFlag(name)]
        ELSE IF exists0 /\ ~hasValidLookingArg
        THEN [exists |-> FALSE, err |-> NoErr]
        ELSE [exists |-> exists0, err |-> NoErr]

\* No call of CheckStringFlag made yet.
NoFlagCall == [def |-> 0, name |-> <<>>, arg |-> <<>>, required |-> FALSE,
               exists |-> FALSE, err |-> NoErr]

\* A caller calls the first definition.
CallCheckStringFlag ==
    \E name \in FlagNames, arg \in FlagArgs, required \in BOOLEAN :
        LET r == CheckStringFlag(name, arg, required)
        IN  /\ flagCall' = [def |-> 1, name |-> name, arg |-> arg, required |-> required,
                            exists |-> r.exists, err |-> r.err]
            /\ UNCHANGED <<statVars, sfVars, pipeVars, timedVars>>

\* A caller calls the second definition.
CallCheckStringFlag2 ==
    \E name \in FlagNames, arg \in FlagArgs, required \in BOOLEAN :
        LET r == CheckStringFlag2(name, arg, required)
        IN  /\ flagCall' = [def |-> 2, name |-> name, arg |-> arg, required |-> required,
                            exists |-> r.exists, err |-> r.err]
            /\ UNCHANGED <<statVars, sfVars, pipeVars, timedVars>>

-----------------------------------------------------------------------------
(* UTF-8, as bufio.Reader.ReadRune and string([]rune) use it *)

\* unicode/utf8.RuneError, U+FFFD
RuneError == 65533

\* The bytes drawn for standard input: 'A', the two bytes of U+00E9 (C3 A9),
\* and FF, which no UTF-8 encoding contains.
ByteSet == {65, 195, 169, 255}

\* Longer encodings, tried whole: U+20AC (E2 82 AC), U+1F600 (F0 9F 98 80),
\* U+FFFD itself (EF BF BD), a surrogate (ED A0 80), an overlong form (C0 80).
SampleStreams == {<<226, 130, 172>>, <<240, 159, 152, 128>>, <<239, 191, 189>>,
                  <<237, 160, 128>>, <<192, 128>>}

\* utf8.first[p0] & 7: the length of the encoding a first byte announces;
\* 0 for ASCII, 1 for a byte that starts no encoding.
FirstSize(p0) ==
    IF p0 < 128 THEN 0
    ELSE IF p0 < 194 THEN 1
    ELSE IF p0 < 224 THEN 2
    ELSE IF p0 < 240 THEN 3
    ELSE IF p0 < 245 THEN 4
    ELSE 1

\* utf8.acceptRanges[first[p0] >> 4]: the range of the second byte.
AcceptLo(p0) == IF p0 = 224 THEN 160 ELSE IF p0 = 240 THEN 144 ELSE 128
AcceptHi(p0) == IF p0 = 237 THEN 159 ELSE IF p0 = 244 THEN 143 ELSE 191

\* locb <= b <= hicb
IsContinuation(b) == 128 <= b /\ b <= 191

\* utf8.FullRune(p)
FullRune(p) ==
    LET n == Len(p) IN
    IF n = 0 THEN FALSE
    ELSE IF n >= FirstSize(p[1]) THEN TRUE
    ELSE IF n > 1 /\ (p[2] < AcceptLo(p[1]) \/ AcceptHi(p[1]) < p[2]) THEN TRUE
    ELSE IF n > 2 /\ ~IsContinuation(p[3]) THEN TRUE
    ELSE FALSE

\* utf8.DecodeRune(p) for a non-empty p: the rune and its width in bytes.
DecodeRune(p) ==
    LET n == Len(p)
        p0 == p[1]
        sz == FirstSize(p0)
        bad == [rune |-> RuneError, size |-> 1]
    IN  IF sz = 0 THEN [rune |-> p0, size |-> 1]
        ELSE IF sz = 1 THEN bad
        ELSE IF n < sz THEN bad
        ELSE IF p[2] < AcceptLo(p0) \/ AcceptHi(p0) < p[2] THEN bad
        ELSE IF sz = 2 THEN [rune |-> (p0 % 32) * 64 + (p[2] % 64), size |-> 2]
        ELSE IF ~IsContinuation(p[3]) THEN bad
        ELSE IF sz = 3
             THEN [rune |-> (p0 % 16) * 4096 + (p[2] % 64) * 64 + (p[3] % 64), size |-> 3]
        ELSE IF ~IsContinuation(p[4]) THEN bad
        ELSE [rune |-> (p0 % 8) * 262144 + (p[2] % 64) * 4096 + (p[3] % 64) * 64 + (p[4] % 64),
              size |-> 4]

\* utf8.EncodeRune: the bytes of one rune in a string.
EncodeRune(r) ==
    IF 0 <= r /\ r <= 127 THEN <<r>>
    ELSE IF 0 <= r /\ r <= 2047 THEN <<192 + (r \div 64), 128 + (r % 64)>>
    ELSE IF r < 0 \/ r > 1114111 \/ (55296 <= r /\ r <= 57343) THEN <<239, 191, 189>>
    ELSE IF r <= 65535
         THEN <<224 + (r \div 4096), 128 + ((r \div 64) % 64), 128 + (r % 64)>>
    ELSE <<240 + (r \div 262144), 128 + ((r \div 4096) % 64),
           128 + ((r \div 64) % 64), 128 + (r % 64)>>

\* string(output) for output []rune
RECURSIVE RunesToString(_)
RunesToString(runes) ==
    IF runes = <<>> THEN <<>>
    ELSE EncodeRune(Head(runes)) \o RunesToString(Tail(runes))

-----------------------------------------------------------------------------
(* Standard input *)

\* After its bytes standard input ends (EOF), fails (ERR) or stays silent (HANG).
StreamEnds == {"EOF", "ERR", "HANG"}

Streams == SeqUpTo(ByteSet, MaxStdin) \cup SampleStreams

\* The error a failed read of standard input returns.
StdinError == Errorf("read /dev/stdin: input/output error", <<>>)

\* reader.ReadRune() can return: the buffered bytes hold a full rune, or the
\* stream has ended or failed so that no more bytes will be waited for.
ReadRuneReady == FullRune(stdin) \/ stdinEnd # "HANG"

-----------------------------------------------------------------------------
(* GulpFromPipe: util.go:479-496 (and its copy at 934-950) *)

\* A direct, untimed call: reader := bufio.NewReader(os.Stdin); var output []rune
GulpFromPipeCall ==
    /\ cpc = "idle"
    /\ cpc' = "direct"
    /\ rpc' = "loop"
    /\ output' = <<>>
    /\ UNCHANGED <<flagVars, statVars, sfVars, stdin, stdinEnd, sent, gret,
                   timeout, c1, timer, input, err, result, ret, branch, first>>

\* One turn of the loop in which ReadRune returns a rune and a nil error:
\* output = append(output, inputRune). Bytes that decode to no character come
\* back from ReadRune as RuneError with width 1 and a nil error.
ReadRuneOk ==
    /\ rpc = "loop"
    /\ stdin # <<>>
    /\ ReadRuneReady
    /\ LET d == DecodeRune(stdin)
       IN  /\ output' = Append(output, d.rune)
           /\ stdin' = SubSeq(stdin, d.size + 1, Len(stdin))
    /\ UNCHANGED <<flagVars, statVars, sfVars, stdinEnd, sent, rpc, gret, timedVars>>

\* ReadRune returns io.EOF: break, then return string(output), nil
ReadRuneEOF ==
    /\ rpc = "loop"
    /\ stdin = <<>>
    /\ stdinEnd = "EOF"
    /\ gret' = [text |-> RunesToString(output), err |-> NoErr]
    /\ rpc' = "returned"
    /\ UNCHANGED <<flagVars, statVars, sfVars, stdin, stdinEnd, sent, output, timedVars>>

\* ReadRune returns another error: return "", err
ReadRuneErr ==
    /\ rpc = "loop"
    /\ stdin = <<>>
    /\ stdinEnd = "ERR"
    /\ gret' = [text |-> <<>>, err |-> StdinError]
    /\ rpc' = "returned"
    /\ UNCHANGED <<flagVars, statVars, sfVars, stdin, stdinEnd, sent, output, timedVars>>

-----------------------------------------------------------------------------
(* GulpFromPipeWithTimeout: util.go:505-522 *)

Timeouts == {50, 1000}

\* fmt.Errorf("did not read any piped input from stdin after waiting %v", timeout)
TimeoutExceeded(t) ==
    Errorf("did not read any piped input from stdin after waiting %v", <<t>>)

\* The call: c1 := make(chan string, 1)
TimedCall ==
    /\ cpc = "idle"
    /\ \E t \in Timeouts : timeout' = t
    /\ c1' = <<>>
    /\ cpc' = "go"
    /\ UNCHANGED <<flagVars, statVars, sfVars, pipeVars, timer, input, err, result, ret, branch, first>>

\* go func() { ... }(): the goroutine starts and enters GulpFromPipe.
GoReader ==
    /\ cpc = "go"
    /\ cpc' = "select"
    /\ rpc' = "loop"
    /\ output' = <<>>
    /\ UNCHANGED <<flagVars, statVars, sfVars, stdin, stdinEnd, sent, gret,
                   timeout, c1, timer, input, err, result, ret, branch, first>>

\* Goroutine, line 510, first store of input, err = GulpFromPipe()
AssignInput ==
    /\ cpc \notin {"idle", "direct"}
    /\ rpc = "returned"
    /\ input' = gret.text
    /\ rpc' = "assign_err"
    /\ UNCHANGED <<flagVars, statVars, sfVars, stdin, stdinEnd, sent, output, gret,
                   cpc, timeout, c1, timer, err, result, ret, branch, first>>

\* Goroutine, line 510, second store of input, err = GulpFromPipe()
AssignErr ==
    /\ rpc = "assign_err"
    /\ err' = gret.err
    /\ rpc' = "send"
    /\ UNCHANGED <<flagVars, statVars, sfVars, stdin, stdinEnd, sent, output, gret,
                   cpc, timeout, c1, timer, input, result, ret, branch, first>>

\* Faulty variant: c1 is made without a buffer, so the send completes only
\* while the caller is waiting in the select.
Send_Unbuffered ==
    /\ rpc = "send"
    /\ cpc = "wait"
    /\ Len(c1) < 1
    /\ c1' = Append(c1, input)
    /\ rpc' = "done"
    /\ first' = IF first = "none" THEN "read" ELSE first
    /\ UNCHANGED <<flagVars, statVars, sfVars, stdin, stdinEnd, sent, output, gret,
                   cpc, timeout, timer, input, err, result, ret, branch>>

\* Goroutine, line 511: c1 <- input, which waits while the one slot is taken.
Send ==
    /\ rpc = "send"
    /\ Len(c1) < 1
    /\ c1' = Append(c1, input)
    /\ rpc' = "done"
    /\ first' = IF first = "none" THEN "read" ELSE first
    /\ UNCHANGED <<flagVars, statVars, sfVars, stdin, stdinEnd, sent, output, gret,
                   cpc, timeout, timer, input, err, result, ret, branch>>

\* The caller enters select: time.After(timeout) is evaluated and its timer starts.
SelectEnter ==
    /\ cpc = "select"
    /\ timer' = "armed"
    /\ cpc' = "wait"
    /\ UNCHANGED <<flagVars, statVars, sfVars, pipeVars, timeout, c1, input, err, result, ret, branch, first>>

\* The timer fires: a value is ready on the channel time.After returned.
TimerFire ==
    /\ timer = "armed"
    /\ timer' = "fired"
    /\ first' = IF first = "none" THEN "timer" ELSE first
    /\ UNCHANGED <<flagVars, statVars, sfVars, pipeVars, cpc, timeout, c1, input, err, result, ret, branch>>

\* case result := <-c1: can proceed when c1 holds a value. When both cases can
\* proceed Go chooses one of them by a pseudo-random selection.
SelectRecv ==
    /\ cpc = "wait"
    /\ c1 # <<>>
    /\ result' = Head(c1)
    /\ c1' = Tail(c1)
    /\ branch' = "read"
    /\ cpc' = "ret_read"
    /\ UNCHANGED <<flagVars, statVars, sfVars, pipeVars, timeout, timer, input, err, ret, first>>

\* Faulty variant: the second case waits on a channel nothing ever sends to.
SelectTimeout_NeverReady ==
    /\ cpc = "wait"
    /\ FALSE
    /\ UNCHANGED vars

\* Faulty variant: the second case can proceed at once (a default case).
SelectTimeout_NoWait ==
    /\ cpc = "wait"
    /\ branch' = "timer"
    /\ cpc' = "ret_timeout"
    /\ UNCHANGED <<flagVars, statVars, sfVars, pipeVars, timeout, c1, timer, input, err, result, ret, first>>

\* case <-time.After(timeout): can proceed when the timer has fired.
SelectTimeout ==
    /\ cpc = "wait"
    /\ timer = "fired"
    /\ branch' = "timer"
    /\ cpc' = "ret_timeout"
    /\ UNCHANGED <<flagVars, statVars, sfVars, pipeVars, timeout, c1, timer, input, err, result, ret, first>>

\* return result, nil (line 516) sets the named results, input first.
ReturnReadSetInput ==
    /\ cpc = "ret_read"
    /\ input' = result
    /\ cpc' = "ret_read_err"
    /\ UNCHANGED <<flagVars, statVars, sfVars, pipeVars, timeout, c1, timer, err, result, ret, branch, first>>

ReturnReadSetErr ==
    /\ cpc = "ret_read_err"
    /\ err' = NoErr
    /\ cpc' = "exit"
    /\ UNCHANGED <<flagVars, statVars, sfVars, pipeVars, timeout, c1, timer, input, result, ret, branch, first>>

\* return "", fmt.Errorf(...) (line 518) sets the named results, input first.
ReturnTimeoutSetInput ==
    /\ cpc = "ret_timeout"
    /\ input' = <<>>
    /\ cpc' = "ret_timeout_err"
    /\ UNCHANGED <<flagVars, statVars, sfVars, pipeVars, timeout, c1, timer, err, result, ret, branch, first>>

ReturnTimeoutSetErr ==
    /\ cpc = "ret_timeout_err"
    /\ err' = TimeoutExceeded(timeout)
    /\ cpc' = "exit"
    /\ UNCHANGED <<flagVars, statVars, sfVars, pipeVars, timeout, c1, timer, input, result, ret, branch, first>>

\* The function exits: input and err, which the goroutine's closure captures and
\* which therefore live on the heap, are loaded into the values handed to the
\* caller. Nothing orders these loads against the goroutine's stores.
ExitLoadInput ==
    /\ cpc = "exit"
    /\ ret' = [ret EXCEPT !.text = input]
    /\ cpc' = "exit_err"
    /\ UNCHANGED <<flagVars, statVars, sfVars, pipeVars, timeout, c1, timer, input, err, result, branch, first>>

ExitLoadErr ==
    /\ cpc = "exit_err"
    /\ ret' = [ret EXCEPT !.err = err]
    /\ cpc' = "done"
    /\ UNCHANGED <<flagVars, statVars, sfVars, pipeVars, timeout, c1, timer, input, err, result, branch, first>>

-----------------------------------------------------------------------------
(* CanReadFromPipe: util.go:459-470 (and its copy at 920-931) *)

\* The bits of info.Mode() tried; os.ModeCharDevice is the one the code tests.
ModeBits == {"ModeCharDevice", "ModeDevice", "ModeNamedPipe", "ModeSocket"}

\* The error of a failed os.Stdin.Stat()
StatError == Errorf("stat /dev/stdin: bad file descriptor", <<>>)

\* What os.Stdin.Stat() can give: a FileInfo with its mode and size, or an
\* error and no FileInfo.
StatResults ==
    [err : {NoErr}, mode : SUBSET ModeBits, size : -1..MaxStatSize]
        \cup {[err |-> StatError, mode |-> {}, size |-> 0]}

\* Faulty variant: the size test is "< 0".
CanReadFromPipe_StrictSize(st) ==
    IF st.err # NoErr THEN [can |-> FALSE, err |-> st.err]
    ELSE IF "ModeCharDevice" \in st.mode \/ st.size < 0 THEN [can |-> TRUE, err |-> NoErr]
    ELSE [can |-> FALSE, err |-> NoErr]

\* util.go:459-470, given the outcome st of os.Stdin.Stat()
CanReadFromPipe(st) ==
    IF st.err # NoErr THEN [can |-> FALSE, err |-> st.err]
    ELSE IF "ModeCharDevice" \in st.mode \/ st.size <= 0 THEN [can |-> TRUE, err |-> NoErr]
    ELSE [can |-> FALSE, err |-> NoErr]

\* util.go:920-931, the second definition
CanReadFromPipe2(st) ==
    IF st.err # NoErr THEN [can |-> FALSE, err |-> st.err]
    ELSE IF "ModeCharDevice" \in st.mode \/ st.size <= 0 THEN [can |-> TRUE, err |-> NoErr]
    ELSE [can |-> FALSE, err |-> NoErr]

\* No call of CanReadFromPipe made yet.
NoCanReadCall == [def |-> 0, stat |-> [err |-> NoErr, mode |-> {}, size |-> 0],
                  can |-> FALSE, err |-> NoErr]

\* A caller calls the first definition.
CallCanReadFromPipe ==
    \E st \in StatResults :
        LET r == CanReadFromPipe(st)
        IN  /\ canRead' = [def |-> 1, stat |-> st, can |-> r.can, err |-> r.err]
            /\ UNCHANGED <<flagVars, sfVars, pipeVars, timedVars>>

\* A caller calls the second definition.
CallCanReadFromPipe2 ==
    \E st \in StatResults :
        LET r == CanReadFromPipe2(st)
        IN  /\ canRead' = [def |-> 2, stat |-> st, can |-> r.can, err |-> r.err]
            /\ UNCHANGED <<flagVars, sfVars, pipeVars, timedVars>>

-----------------------------------------------------------------------------
(* StringFlag: util.go:60-111 *)

SetArgs == SeqUpTo(FlagChars, MaxSetArgLen)

\* The zero value of type StringFlag (lines 60-65)
ZeroStringFlag == [val |-> <<>>, exists |-> FALSE, set |-> FALSE, err |-> NoErr]

\* The value setRet holds before any Set call has returned.
NotReturned == Errorf("no Set call has returned", <<>>)

\* Faulty variant: a valid argument clears the error of an earlier one.
StringFlagSet_ClearsErr(f, s) ==
    IF HasDashPrefix(s)
    THEN [flag |-> [val |-> s, exists |-> TRUE, set |-> f.set,
                    err |-> Errorf("flag needs a valid string argument, not %s", <<s>>)],
          ret |-> NoErr]
    ELSE [flag |-> [val |-> s, exists |-> TRUE, set |-> TRUE, err |-> NoErr],
          ret |-> NoErr]

\* func (sf *StringFlag) Set(s string) error, lines 68-80: the flag after the
\* call and the value returned.
StringFlagSet(f, s) ==
    IF HasDashPrefix(s)
    THEN [flag |-> [val |-> s, exists |-> TRUE, set |-> f.set,
                    err |-> Errorf("flag needs a valid string argument, not %s", <<s>>)],
          ret |-> NoErr]
    ELSE [flag |-> [val |-> s, exists |-> TRUE, set |-> TRUE, err |-> f.err],
          ret |-> NoErr]

\* Exists(), IsSet(), Error(), lines 88-100
Exists(f) == f.exists
IsSet(f) == f.set
Error(f) == f.err

\* AllOk(), lines 109-111
AllOk(f) == Exists(f) /\ IsSet(f) /\ Error(f) = NoErr

\* A caller (the flag package, for each occurrence of the flag) calls sf.Set(s).
CallSet ==
    /\ Len(setArgs) < MaxSets
    /\ \E s \in SetArgs :
        LET r == StringFlagSet(sf, s)
        IN  /\ sf' = r.flag
            /\ setRet' = r.ret
            /\ setArgs' = Append(setArgs, s)
    /\ UNCHANGED <<flagVars, statVars, pipeVars, timedVars>>

-----------------------------------------------------------------------------
(* Specifications *)

InitFlag == flagCall = NoFlagCall

InitPipe ==
    /\ sent \in Streams
    /\ stdin = sent
    /\ stdinEnd \in StreamEnds
    /\ output = <<>>
    /\ rpc = "none"
    /\ gret = [text |-> <<>>, err |-> NoErr]

InitPipeQuiet ==
    /\ sent = <<>>
    /\ stdin = <<>>
    /\ stdinEnd = "EOF"
    /\ output = <<>>
    /\ rpc = "none"
    /\ gret = [text |-> <<>>, err |-> NoErr]

InitStat == canRead = NoCanReadCall

InitStringFlag ==
    /\ sf = ZeroStringFlag
    /\ setArgs = <<>>
    /\ setRet = NotReturned

InitTimed ==
    /\ cpc = "idle"
    /\ timeout = 0
    /\ c1 = <<>>
    /\ timer = "unarmed"
    /\ input = <<>>
    /\ err = NoErr
    /\ result = <<>>
    /\ ret = [text |-> <<>>, err |-> NoErr]
    /\ branch = "none"
    /\ first = "none"

\* Calls of CheckStringFlag, in either definition.
InitFlagSpec == InitFlag /\ InitPipeQuiet /\ InitTimed /\ InitStat /\ InitStringFlag
NextFlag == CallCheckStringFlag \/ CallCheckStringFlag2
SpecFlag == InitFlagSpec /\ [][NextFlag]_vars

\* Calls of CanReadFromPipe, in either definition.
NextCanRead == CallCanReadFromPipe \/ CallCanReadFromPipe2
SpecCanRead == InitFlagSpec /\ [][NextCanRead]_vars

\* Set calls on one StringFlag that starts from its zero value.
NextStringFlag == CallSet
SpecStringFlag == InitFlagSpec /\ [][NextStringFlag]_vars

\* One untimed call of GulpFromPipe on some standard input.
InitGulp == InitFlag /\ InitPipe /\ InitTimed /\ InitStat /\ InitStringFlag
NextGulp == GulpFromPipeCall \/ ReadRuneOk \/ ReadRuneEOF \/ ReadRuneErr
SpecGulp == InitGulp /\ [][NextGulp]_vars

\* One call of GulpFromPipeWithTimeout: the caller, its goroutine and the timer.
ReaderStep == ReadRuneOk \/ ReadRuneEOF \/ ReadRuneErr \/ AssignInput \/ AssignErr \/ Send
CallerStep ==
    \/ TimedCall \/ GoReader \/ SelectEnter \/ SelectRecv \/ SelectTimeout
    \/ ReturnReadSetInput \/ ReturnReadSetErr
    \/ ReturnTimeoutSetInput \/ ReturnTimeoutSetErr
    \/ ExitLoadInput \/ ExitLoadErr
NextTimed ==
    \/ TimedCall \/ GoReader \/ SelectEnter \/ SelectRecv \/ SelectTimeout
    \/ ReturnReadSetInput \/ ReturnReadSetErr
    \/ ReturnTimeoutSetInput \/ ReturnTimeoutSetErr
    \/ ExitLoadInput \/ ExitLoadErr
    \/ ReadRuneOk \/ ReadRuneEOF \/ ReadRuneErr \/ AssignInput \/ AssignErr \/ Send
    \/ TimerFire
SpecTimed == InitGulp /\ [][NextTimed]_vars

\* The same, with the scheduling Go gives: a goroutine that can run does run,
\* and a started timer fires.
FairSpecTimed ==
    /\ InitGulp
    /\ [][NextTimed]_vars
    /\ WF_vars(CallerStep)
    /\ WF_vars(ReaderStep)
    /\ WF_vars(TimerFire)

-----------------------------------------------------------------------------
(* Claims about CheckStringFlag (SpecFlag) *)

\* C1: whenever arg begins with '-', CheckStringFlag (in every definition of
\* it in util.go) returns the error InvalidFlagArgument(name, arg).
C1_FlagShapedArgFails ==
    (flagCall.def # 0 /\ HasDashPrefix(flagCall.arg))
        => flagCall.err = InvalidFlagArgument(flagCall.name, flagCall.arg)

\* C2: CheckStringFlag(name, "", required=true) returns exists=false and the
\* error MissingRequiredFlag naming the flag.
C2_MissingRequiredFlag ==
    (flagCall.def # 0 /\ flagCall.arg = <<>> /\ flagCall.required)
        => (~flagCall.exists /\ flagCall.err = MissingRequiredFlag(flagCall.name))

C2_Witness ==
    /\ flagCall.def = 1
    /\ flagCall.name = <<"r">>
    /\ flagCall.arg = <<>>
    /\ flagCall.required
    /\ ~flagCall.exists
    /\ flagCall.err = MissingRequiredFlag(<<"r">>)

\* C3: for a non-empty arg that does not begin with '-', and either value of
\* required, CheckStringFlag returns exists=true and a nil error.
C3_ValidArgAccepted ==
    (flagCall.def # 0 /\ flagCall.arg # <<>> /\ ~HasDashPrefix(flagCall.arg))
        => (flagCall.exists /\ flagCall.err = NoErr)

C3_Witness ==
    /\ flagCall.def = 1
    /\ flagCall.arg = <<"x", "-">>
    /\ flagCall.required
    /\ flagCall.exists
    /\ flagCall.err = NoErr

\* C4: CheckStringFlag(name, "", required=false) returns exists=false and a
\* nil error.
C4_AbsentOptionalFlag ==
    (flagCall.def # 0 /\ flagCall.arg = <<>> /\ ~flagCall.required)
        => (~flagCall.exists /\ flagCall.err = NoErr)

C4_Witness ==
    /\ flagCall.def = 1
    /\ flagCall.name = <<"o">>
    /\ flagCall.arg = <<>>
    /\ ~flagCall.required
    /\ ~flagCall.exists
    /\ flagCall.err = NoErr

-----------------------------------------------------------------------------
(* Claims about GulpFromPipeWithTimeout (SpecTimed, FairSpecTimed) *)

\* C5: when standard input never produces data and never ends, the call still
\* returns, with empty text and the TimeoutExceeded error carrying the timeout.
C5_SilentStdinTimesOut ==
    (sent = <<>> /\ stdinEnd = "HANG")
        ~> (cpc = "done" /\ ret = [text |-> <<>>, err |-> TimeoutExceeded(timeout)])

C5_Witness ==
    /\ sent = <<>>
    /\ stdinEnd = "HANG"
    /\ cpc = "done"
    /\ branch = "timer"
    /\ ret = [text |-> <<>>, err |-> TimeoutExceeded(50)]

\* C6, as stated: the case the caller takes is the one whose event came first.
C6_FirstEventWins == (branch # "none") => (branch = first)

\* C6, amended: the caller takes exactly one case of the select, once; it takes
\* the read case only when the goroutine has delivered into c1 and the timeout
\* case only when the timer has fired; and it has taken one when it returns.
C6_SelectTakesOneReadyCase ==
    [][ /\ (branch # "none" => branch' = branch)
        /\ ((branch = "none" /\ branch' = "read") => (rpc = "done" /\ c1 # <<>>))
        /\ ((branch = "none" /\ branch' = "timer") => timer = "fired")
        /\ (cpc' = "done" => branch' \in {"read", "timer"}) ]_vars

\* Both events had happened when the caller chose, and the later one was taken.
C6_Witness ==
    /\ cpc = "done"
    /\ first = "read"
    /\ branch = "timer"

\* C7: a read that fails (not with end-of-stream) and is delivered before the
\* timer fires makes GulpFromPipeWithTimeout return that same error.
C7_ReadErrorPropagates ==
    (cpc = "done" /\ branch = "read" /\ first = "read" /\ gret.err # NoErr)
        => ret.err = gret.err

\* C8: a caller that took the timeout case receives exactly empty text and
\* the TimeoutExceeded error, whatever the abandoned goroutine does.
C8_TimeoutResultIsFinal ==
    (cpc = "done" /\ branch = "timer")
        => ret = [text |-> <<>>, err |-> TimeoutExceeded(timeout)]

-----------------------------------------------------------------------------
(* Claims about GulpFromPipe (SpecGulp) *)

\* utf8.Valid(s): s is made of well-formed encodings only.
RECURSIVE ValidUTF8(_)
ValidUTF8(s) ==
    IF s = <<>> THEN TRUE
    ELSE LET d == DecodeRune(s)
         IN  /\ ~(d.rune = RuneError /\ d.size = 1)
             /\ ValidUTF8(SubSeq(s, d.size + 1, Len(s)))

\* C9: for every finite byte sequence ended by end-of-stream, GulpFromPipe
\* returns a nil error and exactly that sequence.
C9_RoundTrip ==
    (cpc = "direct" /\ rpc = "returned" /\ stdinEnd = "EOF")
        => (gret.err = NoErr /\ gret.text = sent)

\* C10: when the stream holds bytes that decode to no valid character,
\* GulpFromPipe returns a non-nil error and empty text.
C10_InvalidCharAborts ==
    (cpc = "direct" /\ rpc = "returned" /\ ~ValidUTF8(sent))
        => (gret.err # NoErr /\ gret.text = <<>>)

-----------------------------------------------------------------------------
(* Further claims about GulpFromPipeWithTimeout (SpecTimed, FairSpecTimed) *)

\* C11, as stated: whenever the caller receives the TimeoutExceeded error, the goroutine's
\* read has consumed no character of standard input up to that moment.
C11_TimeoutMeansNothingRead ==
    (cpc = "done" /\ ret.err = TimeoutExceeded(timeout))
        => (output = <<>> /\ stdin = sent)

\* C11, amended: whenever the caller receives the TimeoutExceeded error it has
\* taken the timeout case after the timer fired and has received nothing
\* through c1; the goroutine's read may have consumed characters by then.
C11_TimeoutMeansTimerFired ==
    (cpc = "done" /\ ret.err = TimeoutExceeded(timeout))
        => (branch = "timer" /\ timer = "fired" /\ result = <<>>)

\* The caller has TimeoutExceeded while the read has consumed a character.
C11_Witness ==
    /\ cpc = "done"
    /\ ret.err = TimeoutExceeded(50)
    /\ branch = "timer"
    /\ sent = <<65, 65>>
    /\ stdin = <<65>>
    /\ output = <<65>>

\* C14: per call one background reader is started, and only one; c1 never
\* holds more than one value and takes a value only from that reader's single
\* send; the reader's send can always proceed, so a reader whose read of
\* standard input has ended always terminates, also after a timeout; and the
\* caller takes nothing from c1 once it has chosen its case.
C14_OneReaderOneSend ==
    /\ [](Len(c1) <= 1)
    /\ [](cpc \notin {"idle", "go"} => rpc # "none")
    /\ [](rpc = "send" => ENABLED Send)
    /\ [][ /\ ((rpc' = "loop" /\ rpc # "loop") => rpc = "none")
           /\ (rpc = "done" => rpc' = "done")
           /\ (Len(c1') > Len(c1) => (rpc = "send" /\ rpc' = "done"))
           /\ (branch # "none" => Len(c1') >= Len(c1)) ]_vars
    /\ (rpc = "returned" ~> rpc = "done")

\* The caller timed out and has returned; the abandoned reader has finished
\* and its value sits in c1.
C14_Witness ==
    /\ cpc = "done"
    /\ branch = "timer"
    /\ rpc = "done"
    /\ Len(c1) = 1

-----------------------------------------------------------------------------
(* Claims about CanReadFromPipe (SpecCanRead) *)

\* C13: CanReadFromPipe returns true exactly when standard input is a
\* character device or reports a size of zero or less, false when it is no
\* character device and has a positive size, both with a nil error; when Stat
\* fails it returns false together with Stat's error.
C13_CanReadFromPipe ==
    (canRead.def # 0) =>
        /\ (canRead.stat.err = NoErr) =>
              /\ canRead.can <=> ("ModeCharDevice" \in canRead.stat.mode
                                     \/ canRead.stat.size <= 0)
              /\ canRead.err = NoErr
        /\ (canRead.stat.err # NoErr) =>
              (~canRead.can /\ canRead.err = canRead.stat.err)

\* A pipe with nothing buffered: no character device, size zero, answer true.
C13_Witness ==
    /\ canRead.def = 1
    /\ canRead.stat = [err |-> NoErr, mode |-> {"ModeNamedPipe"}, size |-> 0]
    /\ canRead.can
    /\ canRead.err = NoErr

-----------------------------------------------------------------------------
(* Claims about StringFlag (SpecStringFlag) *)

\* Some Set call so far was given an argument beginning with '-'.
SomeSetArgHadDash == \E i \in 1..Len(setArgs) : HasDashPrefix(setArgs[i])

\* C15: for a StringFlag that starts from its zero value, after any sequence of
\* Set calls: AllOk() holds iff exists, set and a nil err all hold, which is
\* iff at least one Set call was made and none of their arguments began with
\* '-'; once an argument began with '-' Error() is non-nil and AllOk() false
\* whatever Set calls follow; Exists() holds after the first Set call; and
\* every Set call returned nil.
C15_StringFlagAllOk ==
    /\ AllOk(sf) <=> (sf.exists /\ sf.set /\ sf.err = NoErr)
    /\ AllOk(sf) <=> (Len(setArgs) >= 1 /\ ~SomeSetArgHadDash)
    /\ SomeSetArgHadDash => (Error(sf) # NoErr /\ ~AllOk(sf))
    /\ (Len(setArgs) >= 1) => Exists(sf)
    /\ (Len(setArgs) >= 1) => setRet = NoErr

\* A flag-shaped argument followed by a valid one: set and exists hold, the
\* error of the first call is still there.
C15_Witness ==
    /\ setArgs = << <<"-", "x">>, <<"x">> >>
    /\ sf.val = <<"x">>
    /\ IsSet(sf)
    /\ Exists(sf)
    /\ Error(sf) # NoErr
    /\ ~AllOk(sf)
    /\ setRet = NoErr

=============================================================================
